---- MODULE Spec2Model ----
(***************************************************************************)
(* Model of the weapon upgrade service of Crownless-Reign-server-2         *)
(* (src/main.py): the players / weapons / inventories tables, the          *)
(* /register handler and the /upgrade handler.  Every request runs in its  *)
(* own SQLAlchemy session (get_db), so a request works on objects it       *)
(* loaded itself and the database only sees the UPDATE that db.commit()    *)
(* flushes: the columns whose session value differs from the loaded one.   *)
(* The handler takes no lock and uses no version column, and the database  *)
(* runs at its default isolation level: every statement sees the rows as   *)
(* committed at that moment, and handlers of concurrent requests           *)
(* interleave between statements.                                          *)
(***************************************************************************)
EXTENDS Integers, FiniteSets, Sequences, TLC

(* ---------------------------- bounds ----------------------------------- *)

\* number of request handlers that can be in flight at the same time
NReq == 2

Reqs == 1..NReq

\* the largest target level handed to calc_chance on its own
MaxTarget == 18

\* the player ids that requests name
Players == {"p1", "p2"}

(* ------------------------ program constants ---------------------------- *)

MaxLevel == 15
GlowLevel == 11
PenaltyLevel == 11
RegisteredLevel == 10
RegisteredSigils == 1

\* one tick is 1/10000; probabilities and random samples are counted in ticks
One == 10000

\* "no value" of the optional response field new_upgrade_level
None == -1

(* --------------------------- chance model ------------------------------ *)

\* The rounding error, in the last place, of the binary64 evaluation of
\* 0.85 - (lvl - 6) * 0.05: the results for lvl = 7 and lvl = 10 are the
\* doubles just below 0.8 and 0.65 (0.7999999999999999, 0.6499999999999999);
\* one tick below stands for "just below".
FloatErr(lvl) == IF lvl \in {7, 10} THEN -1 ELSE 0

calc_chance(lvl) ==
    IF lvl <= 5 THEN One
    ELSE IF lvl <= 10 THEN 8500 - (lvl - 6) * 500 + FloatErr(lvl)
    ELSE IF lvl = 11 THEN 3000
    ELSE IF lvl = 12 THEN 2500
    ELSE IF lvl = 13 THEN 2000
    ELSE IF lvl = 14 THEN 1500
    ELSE IF lvl = 15 THEN 1000
    ELSE 0

\* random.random() returns a multiple of 2^-53 in [0, 1).  The samples are
\* the smallest one, the largest one, and 0.25, which is the chance of
\* target level 12 and a multiple of 2^-53.  (0.3, 0.2, 0.15 and 0.1 are
\* not multiples of 2^-53: no sample equals them.)
Draws == {0, 2500, One - 1}

\* line 197: success = random.random() <= chance
IsSuccess(r, chance) == r <= chance

\* the glow threshold taken as exclusive
GlowOfStrict(level) == level > GlowLevel

\* lines 201 and 217: weapon.glow = weapon.upgrade_level >= 11
GlowOf(level) == level >= GlowLevel

\* the cap test off by one
AtCapOff(level) == level > MaxLevel

\* line 181: if level >= 15
AtCap(level) == level >= MaxLevel

(* ------------------------------ state ---------------------------------- *)

VARIABLES
    players,       \* the player_ids with a row in table players
    weapons,       \* table weapons: player_id -> [upgrade_level, glow]
    inventories,   \* table inventories: player_id -> sigil_protection
    req,           \* the request handlers: position, request, locals, session
    targets,       \* two target levels handed to calc_chance
    chances        \* what calc_chance returned for them, None before the call

vars == <<players, weapons, inventories, req, targets, chances>>

\* the variables of the chance model on its own
chanceVars == <<targets, chances>>

\* a session object for a row that the query did not find (first() = None),
\* or whose attributes are not loaded
NoWeapon == [found |-> FALSE, upgrade_level |-> 0, glow |-> FALSE]
NoInventory == [found |-> FALSE, sigil_protection |-> 0]

NoResponse == [status |-> 0, success |-> FALSE, new_upgrade_level |-> None,
               glow |-> FALSE, message |-> "", shown_level |-> None]

\* UpgradeResponse with its defaults: new_upgrade_level = None, glow = False.
\* shown_level is the level that the message text names.
UpgradeResponse(success, new_level, glow, message, shown) ==
    [status |-> 200, success |-> success, new_upgrade_level |-> new_level,
     glow |-> glow, message |-> message, shown_level |-> shown]

HTTPException(code, detail) ==
    [status |-> code, success |-> FALSE, new_upgrade_level |-> None,
     glow |-> FALSE, message |-> detail, shown_level |-> None]

\* A handler: pc is its position in upgrade_item, player_id and use_sigil the
\* request, level the local of line 180, draw the sample of line 197, path
\* the branch taken, weapon / inventory the session objects and loaded /
\* loaded_inv their values as loaded, resp the response.
IdleReq == [pc |-> "idle", player_id |-> "p1", use_sigil |-> FALSE,
            loaded |-> NoWeapon, weapon |-> NoWeapon,
            loaded_inv |-> NoInventory, inventory |-> NoInventory,
            level |-> None, draw |-> None, path |-> "", resp |-> NoResponse]

\* an UpgradeRequest that has reached upgrade_item with a fresh session
NewReq(p, s) == [IdleReq EXCEPT !.pc = "query_player", !.player_id = p,
                                !.use_sigil = s]

\* no handler holds a response that it has not sent yet
AllSent == \A r \in Reqs : req[r].pc # "done"

(* --------------------------- registration ------------------------------ *)

\* the registration without the test of line 154: the rows are written anew
register_playerReset(p) ==
    /\ players' = players \cup {p}
    /\ weapons' = [q \in DOMAIN weapons \cup {p} |->
                     IF q = p
                     THEN [upgrade_level |-> RegisteredLevel, glow |-> FALSE]
                     ELSE weapons[q]]
    /\ inventories' = [q \in DOMAIN inventories \cup {p} |->
                     IF q = p THEN RegisteredSigils ELSE inventories[q]]
    /\ UNCHANGED <<req, chanceVars>>

\* register_player: nothing happens for a registered player_id; otherwise
\* the three rows are inserted in one commit.
register_player(p) ==
    /\ IF p \in players
       THEN UNCHANGED <<players, weapons, inventories>>
       ELSE /\ players' = players \cup {p}
            /\ weapons' = [q \in DOMAIN weapons \cup {p} |->
                             IF q = p
                             THEN [upgrade_level |-> RegisteredLevel, glow |-> FALSE]
                             ELSE weapons[q]]
            /\ inventories' = [q \in DOMAIN inventories \cup {p} |->
                             IF q = p THEN RegisteredSigils ELSE inventories[q]]
    /\ UNCHANGED <<req, chanceVars>>

(* ------------------- /upgrade: the statements of a call ----------------- *)
(* Each operator takes the handler h at the position it is named after and  *)
(* gives the handler after the statement (and leaves a handler at another   *)
(* position alone).  The tables are parameters: a call run on its own reads *)
(* what it wrote.                                                           *)

\* the lookup without the test of line 171
LookupPlayerSkip(h, ptable) ==
    IF h.pc # "query_player" THEN h ELSE [h EXCEPT !.pc = "query_weapon"]

\* lines 170-172: look the player up, 404 if there is none
LookupPlayer(h, ptable) ==
    IF h.pc # "query_player" THEN h
    ELSE IF h.player_id \in ptable
    THEN [h EXCEPT !.pc = "query_weapon"]
    ELSE [h EXCEPT !.pc = "done", !.path = "no_player",
                   !.resp = HTTPException(404, "Player not found")]

\* line 174: load the weapon row into the session
LoadWeapon(h, wtable) ==
    IF h.pc # "query_weapon" THEN h
    ELSE LET p == h.player_id
             w == IF p \in DOMAIN wtable
                  THEN [found |-> TRUE, upgrade_level |-> wtable[p].upgrade_level,
                        glow |-> wtable[p].glow]
                  ELSE NoWeapon
         IN  [h EXCEPT !.pc = "query_inventory", !.loaded = w, !.weapon = w]

\* the penalty starting one level early
PenalisedEarly(level) == level >= PenaltyLevel - 1

\* line 210: if level >= 11
Penalised(level) == level >= PenaltyLevel

\* the charge test off by one, in either direction
HasChargeOff(inv) == inv.sigil_protection >= 0

HasChargeTwo(inv) == inv.sigil_protection > 1

\* line 211: inventory.sigil_protection > 0
HasCharge(inv) == inv.sigil_protection > 0

\* the success without line 201
SucceedStaleGlow(w, inv) ==
    [path |-> "success",
     weapon |-> [w EXCEPT !.upgrade_level = @ + 1],
     inventory |-> inv]

\* lines 200-201: the session objects after a success
Succeed(w, inv) ==
    [path |-> "success",
     weapon |-> [w EXCEPT !.upgrade_level = @ + 1,
                          !.glow = GlowOf(w.upgrade_level + 1)],
     inventory |-> inv]

\* the sigil is spent and the level is lost all the same
ProtectAndDowngrade(w, inv) ==
    [path |-> "sigil",
     weapon |-> [w EXCEPT !.upgrade_level = @ - 1,
                          !.glow = GlowOf(w.upgrade_level - 1)],
     inventory |-> [inv EXCEPT !.sigil_protection = @ - 1]]

\* line 212: the session objects after a failure that a sigil absorbs
Protect(w, inv) ==
    [path |-> "sigil", weapon |-> w,
     inventory |-> [inv EXCEPT !.sigil_protection = @ - 1]]

\* the downgrade without line 217
DowngradeStaleGlow(w, inv) ==
    [path |-> "downgrade",
     weapon |-> [w EXCEPT !.upgrade_level = @ - 1],
     inventory |-> inv]

\* lines 216-217: the session objects after a failure that costs a level
Downgrade(w, inv) ==
    [path |-> "downgrade",
     weapon |-> [w EXCEPT !.upgrade_level = @ - 1,
                          !.glow = GlowOf(w.upgrade_level - 1)],
     inventory |-> inv]

\* lines 199-220: the branch the handler takes once the sample is drawn, and
\* its session objects after it.  inventory is None when there is no row:
\* reading its sigil_protection (line 211, reached only when use_sigil is
\* true) raises, which ends the call.
Decide(w, inv, level, use_sigil, success) ==
    IF success THEN Succeed(w, inv)
    ELSE IF Penalised(level)
    THEN IF use_sigil /\ ~inv.found
         THEN [path |-> "error", weapon |-> w, inventory |-> inv]
         ELSE IF use_sigil /\ HasCharge(inv)
         THEN Protect(w, inv)
         ELSE Downgrade(w, inv)
    ELSE [path |-> "failed", weapon |-> w, inventory |-> inv]

\* lines 175-220 up to the call of db.commit(): load the inventory row,
\* reject a missing weapon and a weapon at the cap, draw the sample and
\* change the session objects.  Nothing reaches the database here.
Attempt(h, itable, sample) ==
    IF h.pc # "query_inventory" THEN h
    ELSE
    LET p == h.player_id
        inv == IF p \in DOMAIN itable
               THEN [found |-> TRUE, sigil_protection |-> itable[p]]
               ELSE NoInventory
        h1 == [h EXCEPT !.loaded_inv = inv, !.inventory = inv]
        w == h.weapon
    IN
    IF ~w.found
    THEN [h1 EXCEPT !.pc = "done", !.path = "no_weapon",
                    !.resp = HTTPException(404, "Weapon not found")]
    ELSE IF AtCap(w.upgrade_level)
    THEN [h1 EXCEPT !.pc = "done", !.path = "max", !.level = w.upgrade_level,
                    !.resp = UpgradeResponse(FALSE, None, FALSE,
                                             "Max level reached", None)]
    ELSE LET level == w.upgrade_level
             d == Decide(w, inv, level, h.use_sigil,
                         IsSuccess(sample, calc_chance(level + 1)))
             h2 == [h1 EXCEPT !.level = level, !.draw = sample,
                              !.path = d.path, !.weapon = d.weapon,
                              !.inventory = d.inventory]
         IN  IF d.path = "failed"
             THEN [h2 EXCEPT !.pc = "done",
                             !.resp = UpgradeResponse(FALSE, None, FALSE,
                                                      "Upgrade failed.", None)]
             ELSE IF d.path = "error"
             THEN [h2 EXCEPT !.pc = "done",
                             !.resp = HTTPException(500, "Internal Server Error")]
             ELSE [h2 EXCEPT !.pc = "commit"]

\* The UPDATE that the flush of db.commit() sends for the weapon: only the
\* columns whose session value differs from the loaded value are set.
FlushWeapon(row, loaded, now) ==
    [upgrade_level |-> IF now.upgrade_level # loaded.upgrade_level
                       THEN now.upgrade_level ELSE row.upgrade_level,
     glow |-> IF now.glow # loaded.glow THEN now.glow ELSE row.glow]

FlushInventory(count, loaded, now) ==
    IF now.sigil_protection # loaded.sigil_protection
    THEN now.sigil_protection ELSE count

\* the UPDATE without its WHERE clause: every weapon row is written
CommitWeaponsAll(h, wtable) ==
    IF h.pc = "commit" /\ h.weapon.found
    THEN [q \in DOMAIN wtable |-> FlushWeapon(wtable[q], h.loaded, h.weapon)]
    ELSE wtable

\* lines 202, 213, 218: the tables after db.commit() of handler h
CommitWeapons(h, wtable) ==
    IF h.pc = "commit" /\ h.weapon.found
    THEN [wtable EXCEPT ![h.player_id] = FlushWeapon(@, h.loaded, h.weapon)]
    ELSE wtable

CommitInventories(h, itable) ==
    IF h.pc = "commit" /\ h.inventory.found
    THEN [itable EXCEPT ![h.player_id] =
            FlushInventory(@, h.loaded_inv, h.inventory)]
    ELSE itable

\* The handler after db.commit(): the commit expires the session objects.
\* Line 214 returns at once; lines 203 and 219 go on to read the weapon.
Committed(h) ==
    IF h.pc # "commit" THEN h
    ELSE LET h1 == [h EXCEPT !.loaded = NoWeapon, !.weapon = NoWeapon,
                             !.loaded_inv = NoInventory,
                             !.inventory = NoInventory]
         IN  IF h.path = "sigil"
             THEN [h1 EXCEPT !.pc = "done",
                             !.resp = UpgradeResponse(FALSE, None, FALSE,
                                        "Upgrade failed but item protected by Sigil.",
                                        None)]
             ELSE [h1 EXCEPT !.pc = "respond"]

\* lines 203-208 and 219: the response is built from the weapon object after
\* the commit.  The object is expired, so the first attribute read loads the
\* row again and the response shows the row as it is at that moment.
BuildResponse(h, wtable) ==
    IF h.pc # "respond" THEN h
    ELSE LET p == h.player_id
             w == [found |-> TRUE, upgrade_level |-> wtable[p].upgrade_level,
                   glow |-> wtable[p].glow]
         IN  [h EXCEPT !.pc = "done", !.weapon = w, !.loaded = w,
                !.resp = IF h.path = "success"
                         THEN UpgradeResponse(TRUE, w.upgrade_level, w.glow,
                                              "Upgrade success!", w.upgrade_level)
                         ELSE UpgradeResponse(FALSE, None, FALSE,
                                              "Upgrade failed. Item downgraded",
                                              w.upgrade_level)]

\* What a handler in flight still holds: the values that no later statement
\* of the call reads are dropped from its state (the request flag and the
\* locals once the branch is taken, the session object that is not dirty).
Live(h) ==
    IF h.pc = "commit"
    THEN [h EXCEPT !.use_sigil = FALSE, !.level = None, !.draw = None,
                   !.loaded = IF h.path = "sigil" THEN NoWeapon ELSE @,
                   !.weapon = IF h.path = "sigil" THEN NoWeapon ELSE @,
                   !.loaded_inv = IF h.path = "sigil" THEN @ ELSE NoInventory,
                   !.inventory = IF h.path = "sigil" THEN @ ELSE NoInventory]
    ELSE IF h.pc = "respond"
    THEN [h EXCEPT !.use_sigil = FALSE, !.level = None, !.draw = None]
    ELSE h

(* ---------------- /upgrade: concurrent handlers, by statement ----------- *)

\* a new UpgradeRequest arrives at a handler that is free
Request(r, p, s) ==
    /\ req[r].pc = "idle"
    /\ req' = [req EXCEPT ![r] = NewReq(p, s)]
    /\ UNCHANGED <<players, weapons, inventories, chanceVars>>

QueryPlayer(r) ==
    /\ req[r].pc = "query_player"
    /\ req' = [req EXCEPT ![r] = Live(LookupPlayer(@, players))]
    /\ UNCHANGED <<players, weapons, inventories, chanceVars>>

QueryWeapon(r) ==
    /\ req[r].pc = "query_weapon"
    /\ req' = [req EXCEPT ![r] = Live(LoadWeapon(@, weapons))]
    /\ UNCHANGED <<players, weapons, inventories, chanceVars>>

QueryInventory(r) ==
    /\ req[r].pc = "query_inventory"
    /\ \E sample \in Draws :
          req' = [req EXCEPT ![r] = Live(Attempt(@, inventories, sample))]
    /\ UNCHANGED <<players, weapons, inventories, chanceVars>>

Commit(r) ==
    /\ req[r].pc = "commit"
    /\ weapons' = CommitWeapons(req[r], weapons)
    /\ inventories' = CommitInventories(req[r], inventories)
    /\ req' = [req EXCEPT ![r] = Live(Committed(@))]
    /\ UNCHANGED <<players, chanceVars>>

Respond(r) ==
    /\ req[r].pc = "respond"
    /\ req' = [req EXCEPT ![r] = Live(BuildResponse(@, weapons))]
    /\ UNCHANGED <<players, weapons, inventories, chanceVars>>

\* The response leaves the handler, which is free again.
Return(r) ==
    /\ req[r].pc = "done"
    /\ req' = [req EXCEPT ![r] = IdleReq]
    /\ UNCHANGED <<players, weapons, inventories, chanceVars>>

(* ------------------ /upgrade: one call run on its own ------------------- *)

\* upgrade_item from the request to the response with no other handler in
\* between: the statements above, in order, each reading the tables as the
\* statements before it left them.
upgrade_item(r, p, s) ==
    /\ req[r].pc = "idle"
    /\ \E sample \in Draws :
         LET h1 == LookupPlayer(NewReq(p, s), players)
             h2 == LoadWeapon(h1, weapons)
             h3 == Attempt(h2, inventories, sample)
             wtable == CommitWeapons(h3, weapons)
             itable == CommitInventories(h3, inventories)
             h4 == Committed(h3)
             h5 == BuildResponse(h4, wtable)
         IN  /\ req' = [req EXCEPT ![r] = h5]
             /\ weapons' = wtable
             /\ inventories' = itable
    /\ UNCHANGED <<players, chanceVars>>

(* -------------------------- specifications ----------------------------- *)

\* The rows a player_id can have when the service starts: none; a players
\* row only (table players as src/models.py declares it, with no weapon
\* and no inventory); a player with a weapon but no inventory row (the
\* handler looks the rows up independently, lines 174-178).
SeedRows == {"none", "player", "player_weapon"}

DbOf(seed) ==
    [players |-> {p \in Players : seed[p] # "none"},
     weapons |-> [p \in {q \in Players : seed[q] = "player_weapon"} |->
                    [upgrade_level |-> RegisteredLevel, glow |-> FALSE]],
     inventories |-> [p \in {} |-> 0]]

\* calc_chance is not being evaluated on its own
NoChance == targets = <<0, 0>> /\ chances = <<None, None>>

InitDb(seed) ==
    /\ players = DbOf(seed).players
    /\ weapons = DbOf(seed).weapons
    /\ inventories = DbOf(seed).inventories
    /\ req = [r \in Reqs |-> IdleReq]

\* Concurrent requests: the tables are empty when the service starts, and
\* the handlers serve one request after the other, all for the same player.
\* Sending a response touches no table, so its place among the statements
\* of the other handlers does not matter: it is sent before anything else
\* runs.
Init == InitDb([p \in Players |-> "none"]) /\ NoChance

Next ==
    \/ AllSent /\ register_player("p1")
    \/ AllSent /\ \E r \in Reqs, s \in BOOLEAN : Request(r, "p1", s)
    \/ AllSent /\ \E r \in Reqs : QueryPlayer(r)
    \/ AllSent /\ \E r \in Reqs : QueryWeapon(r)
    \/ AllSent /\ \E r \in Reqs : QueryInventory(r)
    \/ AllSent /\ \E r \in Reqs : Commit(r)
    \/ AllSent /\ \E r \in Reqs : Respond(r)
    \/ \E r \in Reqs : Return(r)

Spec == Init /\ [][Next]_vars

\* Calls one at a time: a single handler serves requests for any player,
\* each call from request to response in one step, over any rows the tables
\* can hold at the start.
InitSeq == NoChance /\ \E seed \in [Players -> SeedRows] : InitDb(seed)

NextSeq ==
    \/ AllSent /\ \E p \in Players : register_player(p)
    \/ \E p \in Players, s \in BOOLEAN : upgrade_item(1, p, s)
    \/ Return(1)

SpecSeq == InitSeq /\ [][NextSeq]_vars

\* A batch of concurrent requests: player p1 is registered, and every
\* handler has one request for p1 to serve.
InitBatch ==
    /\ players = {"p1"}
    /\ weapons = [p \in {"p1"} |-> [upgrade_level |-> RegisteredLevel, glow |-> FALSE]]
    /\ inventories = [p \in {"p1"} |-> RegisteredSigils]
    /\ req \in [Reqs -> {NewReq("p1", s) : s \in BOOLEAN}]
    /\ NoChance

NextBatch ==
    \/ \E r \in Reqs : QueryPlayer(r)
    \/ \E r \in Reqs : QueryWeapon(r)
    \/ \E r \in Reqs : QueryInventory(r)
    \/ \E r \in Reqs : Commit(r)
    \/ \E r \in Reqs : Respond(r)

SpecBatch == InitBatch /\ [][NextBatch]_vars

\* The chance model on its own: calc_chance is called once for each of two
\* target levels, below, within and above the table.
Targets == (0 - 2)..MaxTarget

InitChance ==
    /\ InitDb([p \in Players |-> "none"])
    /\ targets \in Targets \X Targets
    /\ chances = <<None, None>>

Evaluate ==
    /\ chances = <<None, None>>
    /\ chances' = <<calc_chance(targets[1]), calc_chance(targets[2])>>
    /\ UNCHANGED <<players, weapons, inventories, req, targets>>

NextChance == Evaluate

SpecChance == InitChance /\ [][NextChance]_vars

\* Requests for different players at the same time: handler 1 serves the
\* requests for p1 and handler 2 those for p2, statement by statement.
PlayerOf(r) == IF r = 1 THEN "p1" ELSE "p2"

NextIso ==
    \/ AllSent /\ \E p \in Players : register_player(p)
    \/ AllSent /\ \E r \in {1, 2}, s \in BOOLEAN : Request(r, PlayerOf(r), s)
    \/ AllSent /\ \E r \in {1, 2} : QueryPlayer(r)
    \/ AllSent /\ \E r \in {1, 2} : QueryWeapon(r)
    \/ AllSent /\ \E r \in {1, 2} : QueryInventory(r)
    \/ AllSent /\ \E r \in {1, 2} : Commit(r)
    \/ AllSent /\ \E r \in {1, 2} : Respond(r)
    \/ \E r \in {1, 2} : Return(r)

SpecIso == Init /\ [][NextIso]_vars

(* ------------------------------ claims --------------------------------- *)

Min(a, b) == IF a <= b THEN a ELSE b

\* the step of SpecSeq that is a whole /upgrade call for player p
Call(p) ==
    /\ req[1].pc = "idle"
    /\ req'[1].pc = "done"
    /\ req'[1].player_id = p

\* the call found all three rows of p, and it ended in an UpgradeResponse
\* that reports a failure
HasRows(p) == p \in players /\ p \in DOMAIN weapons /\ p \in DOMAIN inventories

Failed == req'[1].resp.status = 200 /\ req'[1].resp.success = FALSE

\* C1: when all NReq concurrent requests for the freshly registered player
\* have got their response and every one of them succeeded, the stored level
\* is min(RegisteredLevel + NReq, 15).
NoLostUpdates ==
    (\A r \in Reqs : req[r].pc = "done" /\ req[r].resp.success)
        => weapons["p1"].upgrade_level = Min(RegisteredLevel + NReq, MaxLevel)

\* C2: with calls run one at a time, every stored weapon has
\* glow = (upgrade_level >= 11), after registration and after every call.
GlowInvariant ==
    \A p \in DOMAIN weapons :
        weapons[p].glow = (weapons[p].upgrade_level >= 11)

GlowInvariantWitness ==
    /\ req[1].pc = "done"
    /\ req[1].path = "downgrade"
    /\ req[1].level = 12
    /\ weapons[req[1].player_id] = [upgrade_level |-> 11, glow |-> TRUE]

\* C3: every stored upgrade_level is within 0..15 in every reachable state
\* of the concurrent handlers.
LevelBounds ==
    \A p \in DOMAIN weapons :
        weapons[p].upgrade_level >= 0 /\ weapons[p].upgrade_level <= 15

\* the weapon is at the cap while another handler, which read level 14,
\* still has its write of level 15 to commit
LevelBoundsWitness ==
    /\ "p1" \in DOMAIN weapons
    /\ weapons["p1"].upgrade_level = 15
    /\ \E r \in Reqs : req[r].pc = "commit" /\ req[r].weapon.upgrade_level = 15

\* C4: sigil_protection is never negative, and no step of any handler
\* raises it or lowers it by more than 1.
SigilCounter ==
    [][\A p \in DOMAIN inventories :
          /\ inventories[p] >= 0
          /\ inventories'[p] >= 0
          /\ inventories'[p] <= inventories[p]
          /\ inventories'[p] >= inventories[p] - 1]_vars

\* a charge is spent while another handler that read the same charge is
\* about to spend it too
SigilCounterWitness ==
    /\ "p1" \in DOMAIN inventories
    /\ inventories["p1"] = 0
    /\ \E r \in Reqs : req[r].pc = "commit" /\ req[r].path = "sigil"

\* C5: a call that reads upgrade_level >= 15 changes no row, draws nothing
\* and answers success = false, "Max level reached", for either use_sigil.
CapRejection ==
    [][\A p \in Players :
          (Call(p) /\ p \in players /\ p \in DOMAIN weapons
                   /\ weapons[p].upgrade_level >= 15)
          => /\ weapons' = weapons
             /\ inventories' = inventories
             /\ req'[1].draw = None
             /\ req'[1].resp.status = 200
             /\ req'[1].resp.success = FALSE
             /\ req'[1].resp.new_upgrade_level = None
             /\ req'[1].resp.message = "Max level reached"]_vars

CapRejectionWitness ==
    /\ req[1].pc = "done"
    /\ req[1].use_sigil
    /\ req[1].resp.message = "Max level reached"
    /\ weapons[req[1].player_id].upgrade_level = 15
    /\ req[1].player_id \in DOMAIN inventories
    /\ inventories[req[1].player_id] > 0

\* C6: a call that fails at level L in 11..14 with use_sigil and a charge
\* left lowers sigil_protection by exactly 1, leaves the weapon as it was and
\* answers success = false without new_upgrade_level.
SigilProtectedFailure ==
    [][\A p \in Players :
          (Call(p) /\ HasRows(p) /\ Failed
                   /\ weapons[p].upgrade_level >= 11
                   /\ weapons[p].upgrade_level < 15
                   /\ req'[1].use_sigil /\ inventories[p] > 0)
          => /\ inventories'[p] = inventories[p] - 1
             /\ weapons' = weapons
             /\ req'[1].resp.new_upgrade_level = None]_vars

SigilProtectedFailureWitness ==
    /\ req[1].pc = "done"
    /\ req[1].use_sigil
    /\ req[1].level = 11
    /\ req[1].resp.message = "Upgrade failed but item protected by Sigil."
    /\ inventories[req[1].player_id] = 0
    /\ weapons[req[1].player_id] = [upgrade_level |-> 11, glow |-> TRUE]

\* C7: a call that fails at level L in 11..14 with use_sigil false or with no
\* charge left sets upgrade_level to L - 1 and glow to (L - 1 >= 11), leaves
\* sigil_protection as it was and answers success = false.
UnprotectedDowngrade ==
    [][\A p \in Players :
          (Call(p) /\ p \in players /\ p \in DOMAIN weapons /\ Failed
                   /\ weapons[p].upgrade_level >= 11
                   /\ weapons[p].upgrade_level < 15
                   /\ (~req'[1].use_sigil
                         \/ (p \in DOMAIN inventories /\ inventories[p] = 0)))
          => /\ weapons'[p].upgrade_level = weapons[p].upgrade_level - 1
             /\ weapons'[p].glow = (weapons[p].upgrade_level - 1 >= 11)
             /\ inventories' = inventories
             /\ req'[1].resp.success = FALSE]_vars

UnprotectedDowngradeWitness ==
    /\ req[1].pc = "done"
    /\ req[1].use_sigil
    /\ req[1].level = 11
    /\ req[1].resp.message = "Upgrade failed. Item downgraded"
    /\ inventories[req[1].player_id] = 0
    /\ weapons[req[1].player_id] = [upgrade_level |-> 10, glow |-> FALSE]

\* C8: a call that fails at level L < 11 changes no row, also with use_sigil
\* and a charge left, and answers success = false, "Upgrade failed.".
FreeFailure ==
    [][\A p \in Players :
          (Call(p) /\ p \in players /\ p \in DOMAIN weapons /\ Failed
                   /\ weapons[p].upgrade_level < 11)
          => /\ weapons' = weapons
             /\ inventories' = inventories
             /\ req'[1].resp.new_upgrade_level = None
             /\ req'[1].resp.message = "Upgrade failed."]_vars

FreeFailureWitness ==
    /\ req[1].pc = "done"
    /\ req[1].use_sigil
    /\ req[1].level = 10
    /\ req[1].resp.message = "Upgrade failed."
    /\ req[1].player_id \in DOMAIN inventories
    /\ inventories[req[1].player_id] = 1
    /\ weapons[req[1].player_id] = [upgrade_level |-> 10, glow |-> FALSE]

\* C9: no call changes both the upgrade_level and the sigil_protection of a
\* player, and glow changes only in a call that changes upgrade_level.
SingleFieldTransition ==
    [][\A p \in DOMAIN weapons :
          LET levelChanged == weapons'[p].upgrade_level # weapons[p].upgrade_level
              glowChanged == weapons'[p].glow # weapons[p].glow
              sigilChanged == p \in DOMAIN inventories
                                /\ inventories'[p] # inventories[p]
          IN  /\ ~(levelChanged /\ sigilChanged)
              /\ glowChanged => levelChanged]_vars

\* the sigil was spent at a level where a downgrade would change the glow too
SingleFieldTransitionWitness ==
    /\ req[1].pc = "done"
    /\ req[1].path = "sigil"
    /\ req[1].level = 11
    /\ inventories[req[1].player_id] = 0
    /\ weapons[req[1].player_id].upgrade_level = 11

\* C10: a call for a player_id without a players row, or without a weapons
\* row, is rejected with its own 404 before any sample is drawn and changes
\* no row.
NotFoundRejection ==
    [][\A p \in Players :
          (Call(p) /\ (p \notin players \/ p \notin DOMAIN weapons))
          => /\ req'[1].resp.status = 404
             /\ req'[1].resp.message = IF p \notin players
                                       THEN "Player not found"
                                       ELSE "Weapon not found"
             /\ req'[1].draw = None
             /\ weapons' = weapons
             /\ inventories' = inventories
             /\ players' = players]_vars

NotFoundRejectionWitness ==
    /\ req[1].pc = "done"
    /\ req[1].resp.status = 404
    /\ req[1].resp.message = "Player not found"
    /\ req[1].player_id \notin players
    /\ \E q \in Players : q \in DOMAIN weapons /\ weapons[q].upgrade_level > 10

\* C11: the glow of the UpgradeResponse of every call equals the stored glow
\* of the weapon after the call.
OutcomeGlow ==
    \A r \in Reqs :
        (req[r].pc = "done" /\ req[r].resp.status = 200)
            => req[r].resp.glow = weapons[req[r].player_id].glow

\* the chance table in ticks, as the claim gives it
ChanceTableEntry(t) ==
    IF t <= 5 THEN 10000
    ELSE IF t = 6 THEN 8500
    ELSE IF t = 7 THEN 8000
    ELSE IF t = 8 THEN 7500
    ELSE IF t = 9 THEN 7000
    ELSE IF t = 10 THEN 6500
    ELSE IF t = 11 THEN 3000
    ELSE IF t = 12 THEN 2500
    ELSE IF t = 13 THEN 2000
    ELSE IF t = 14 THEN 1500
    ELSE IF t = 15 THEN 1000
    ELSE 0

\* C12: calc_chance returns the table entry for every target level, always
\* within [0, 1], and never more for a higher level than for a lower one.
ChanceTable ==
    chances # <<None, None>>
        => /\ \A i \in 1..2 : /\ chances[i] = ChanceTableEntry(targets[i])
                              /\ chances[i] >= 0
                              /\ chances[i] <= 10000
           /\ targets[1] <= targets[2] => chances[1] >= chances[2]

\* C13: a call at level L < 15 succeeds exactly when its sample is strictly
\* below the chance of level L + 1.
SuccessRule ==
    (req[1].pc = "done" /\ req[1].draw # None)
        => (req[1].resp.success <=> req[1].draw < calc_chance(req[1].level + 1))

\* C14: a call that succeeds at level L sets upgrade_level to L + 1 and glow
\* to (L + 1 >= 11), leaves sigil_protection as it was, and answers
\* success = true with new_upgrade_level = L + 1 and the stored glow.
SuccessEffect ==
    [][\A p \in Players :
          (Call(p) /\ req'[1].resp.success)
          => /\ weapons[p].upgrade_level < 15
             /\ weapons'[p].upgrade_level = weapons[p].upgrade_level + 1
             /\ weapons'[p].glow = (weapons[p].upgrade_level + 1 >= 11)
             /\ inventories' = inventories
             /\ req'[1].resp.new_upgrade_level = weapons[p].upgrade_level + 1
             /\ req'[1].resp.glow = weapons'[p].glow]_vars

SuccessEffectWitness ==
    /\ req[1].pc = "done"
    /\ req[1].use_sigil
    /\ req[1].level = 10
    /\ req[1].resp.success
    /\ req[1].resp.new_upgrade_level = 11
    /\ req[1].resp.glow
    /\ weapons[req[1].player_id] = [upgrade_level |-> 11, glow |-> TRUE]
    /\ req[1].player_id \in DOMAIN inventories
    /\ inventories[req[1].player_id] = 1

\* C15: once the stored upgrade_level of a player is 15 it stays 15, whatever
\* the concurrent handlers do.
TerminalCap ==
    [][\A p \in DOMAIN weapons :
          weapons[p].upgrade_level = 15 => weapons'[p].upgrade_level = 15]_vars

\* C16: when no handler has a commit left to do, every stored weapon of the
\* concurrent handlers has glow = (upgrade_level >= 11).
GlowAfterCommits ==
    (\A r \in Reqs : req[r].pc # "commit")
        => \A p \in DOMAIN weapons :
              weapons[p].glow = (weapons[p].upgrade_level >= 11)

\* C17: every call that returns the sigil-protected outcome spends a charge
\* of its own: its commit lowers the stored sigil_protection by 1, so the
\* protected outcomes never outnumber the charges spent.
SingleUseCharges ==
    [][\A r \in Reqs :
          (req[r].pc = "commit" /\ req'[r].pc = "done"
             /\ req'[r].resp.message = "Upgrade failed but item protected by Sigil.")
          => inventories'[req[r].player_id] = inventories[req[r].player_id] - 1]_vars

\* C18: a call for a player with a weapon row and no inventory row is
\* rejected with 404 before any sample is drawn and changes no row.
MissingInventory ==
    [][\A p \in Players :
          (Call(p) /\ p \in players /\ p \in DOMAIN weapons
                   /\ p \notin DOMAIN inventories)
          => /\ req'[1].resp.status = 404
             /\ req'[1].draw = None
             /\ weapons' = weapons
             /\ inventories' = inventories]_vars

\* the rows of player q are the same before and after the step
RowsUnchanged(q) ==
    /\ (q \in players) = (q \in players')
    /\ (q \in DOMAIN weapons) = (q \in DOMAIN weapons')
    /\ q \in DOMAIN weapons => weapons'[q] = weapons[q]
    /\ (q \in DOMAIN inventories) = (q \in DOMAIN inventories')
    /\ q \in DOMAIN inventories => inventories'[q] = inventories[q]

\* C19: no statement of a handler serving player p changes a row of another
\* player q, whatever the handlers for other players do in between.
PlayerIsolation ==
    [][\A r \in Reqs :
          (req[r].pc \notin {"idle", "done"} /\ req'[r] # req[r])
          => \A q \in Players \ {req[r].player_id} : RowsUnchanged(q)]_vars

\* p1 has lost a level while the handler for p2, which read the weapon of
\* p2 before, still has its own write to commit
PlayerIsolationWitness ==
    /\ players = {"p1", "p2"}
    /\ weapons["p1"] = [upgrade_level |-> 11, glow |-> TRUE]
    /\ weapons["p2"] = [upgrade_level |-> 13, glow |-> TRUE]
    /\ inventories["p1"] = 0
    /\ inventories["p2"] = 1
    /\ req[1].pc = "respond"
    /\ req[1].path = "downgrade"
    /\ req[2].pc = "commit"
    /\ req[2].path = "success"

\* C20: registering a new player_id creates its weapon at level 10 without
\* glow and its inventory with 1 sigil and touches no other row; registering
\* a player_id that has a players row changes nothing.
Registration ==
    [][req' = req =>
          \A p \in Players :
             IF p \in players \/ p \notin players'
             THEN RowsUnchanged(p)
             ELSE /\ p \in DOMAIN weapons'
                  /\ weapons'[p] = [upgrade_level |-> 10, glow |-> FALSE]
                  /\ p \in DOMAIN inventories'
                  /\ inventories'[p] = 1]_vars

\* p1 has just been registered next to p2, who has upgraded the weapon and
\* spent the sigil, and whose rows registrations leave alone
RegistrationWitness ==
    /\ players = {"p1", "p2"}
    /\ req[1].pc = "idle"
    /\ DOMAIN weapons = {"p1", "p2"}
    /\ DOMAIN inventories = {"p1", "p2"}
    /\ weapons["p1"] = [upgrade_level |-> 10, glow |-> FALSE]
    /\ inventories["p1"] = 1
    /\ weapons["p2"] = [upgrade_level |-> 13, glow |-> TRUE]
    /\ inventories["p2"] = 0

====
